---------------------------- MODULE Spec2Model ----------------------------
(***************************************************************************)
(* mooncell: a local DNS server that answers UDP queries by DNS-over-HTTPS *)
(* JSON requests.  The module models                                       *)
(*   - the request pipeline: Server listener threads, the Queue, the       *)
(*     Processor receiver thread and its worker pool, Request::respond,    *)
(*     driven by main() and by the termination handler (Spec);             *)
(*   - one DoHJsonResolver::resolve_query call: the per-question fan-out,  *)
(*     the result channel and DoHJsonResponse::apply (SpecResolve);        *)
(*   - DoHJsonResponse::apply on its own, with any source prefix           *)
(*     (SpecApply);                                                        *)
(*   - the pipeline with fair threads, unending traffic and callers of     *)
(*     the components' public methods that main() lacks (SpecLive);        *)
(*   - Request::respond on its own, with any message (SpecRespond);        *)
(*   - the DoHJsonProvider registry and build_http_request (SpecProvider); *)
(*   - parsing and serializing a DoH JSON reply body (SpecJson).           *)
(***************************************************************************)
EXTENDS Integers, Sequences, FiniteSets, TLC

\* ------------------------------------------------------------------ bounds
NumEndpoints == 2   \* bound UDP endpoints (|ipv4| + |ipv6|)
NumClients == 2     \* distinct client source addresses
MaxDatagrams == 2   \* datagrams received by the listeners in one run
BufLen == 4         \* length of a listener's receive buffer (512 in the code)
MaxQuestions == 2   \* questions of the query given to resolve_query
MaxApplies == 2     \* replies applied to one response in SpecApply
NumWorkers == 2     \* Processor workers calling resolve at the same time
ResolverThreads == 1 \* threads of the resolver pool (num_cpus::get())

Endpoints == 1..NumEndpoints
Clients == 1..NumClients

\* ------------------------------------------------------------ DNS messages
\* Wire format of the model: <<id, flags, qdcount, question_1, ...>>.
\* flags = message type (0 Query, 1 Response) + 2 * op_code.  A question is
\* one non-zero byte; bytes after the declared questions are ignored, as the
\* DNS decoder ignores what follows the sections the header counts.
HeaderLen == 3

Datagrams ==
  { <<1, 0, 1, 1>>,    \* Query id 1, one question
    <<1, 1, 0>>,       \* Response id 1
    <<2, 0, 1>>,       \* Query id 2 announcing a question that is missing
    <<2>> }            \* shorter than a header

\* DnsMessage::new(): an empty message.
DnsMessageNew ==
  [id |-> 0, message_type |-> "Query", op_code |-> 0, authoritative |-> FALSE,
   truncated |-> FALSE, recursion_desired |-> FALSE,
   recursion_available |-> FALSE, authentic_data |-> FALSE,
   checking_disabled |-> FALSE, response_code |-> 0,
   queries |-> <<>>, answers |-> <<>>, edns |-> <<>>]

Err == [ok |-> FALSE]

SubSeqFrom(s, a, n) == [i \in 1..n |-> s[a + i]]

dns_message_from_bytes(bytes) ==
  IF Len(bytes) < HeaderLen THEN Err
  ELSE LET qd == bytes[3] IN
       IF Len(bytes) < HeaderLen + qd THEN Err
       ELSE IF \E i \in 1..qd : bytes[HeaderLen + i] = 0 THEN Err
       ELSE [ok |-> TRUE,
             msg |-> [DnsMessageNew EXCEPT
                        !.id = bytes[1],
                        !.message_type = IF bytes[2] % 2 = 0 THEN "Query" ELSE "Response",
                        !.op_code = bytes[2] \div 2,
                        !.queries = SubSeqFrom(bytes, HeaderLen, qd)]]

dns_message_to_bytes(m) ==
  <<m.id, (IF m.message_type = "Query" THEN 0 ELSE 1) + 2 * m.op_code,
    Len(m.queries)>> \o m.queries

\* Mutant of ResponseHeader: the op_code of the query is not copied.
ResponseHeaderNoOpCode(q) ==
  [DnsMessageNew EXCEPT !.id = q.id, !.message_type = "Response",
                        !.authoritative = TRUE]

\* The header resolve_query gives the response before any reply is applied.
ResponseHeader(q) ==
  [DnsMessageNew EXCEPT !.id = q.id, !.op_code = q.op_code,
                        !.message_type = "Response", !.authoritative = TRUE]

\* ---------------------------------------------------------- DoH providers
\* A DoHJsonProvider: scheme, authority, path and query of its path_query
\* (query is <<>> when the template has none) and its headers, a set of
\* <<name, value>> pairs.
from_raw_parts_with_headers(raw_scheme, raw_authority, raw_path, raw_query, headers) ==
  [scheme |-> raw_scheme, authority |-> raw_authority, path |-> raw_path,
   query |-> raw_query, headers |-> headers]

from_raw_parts(raw_scheme, raw_authority, raw_path, raw_query) ==
  from_raw_parts_with_headers(raw_scheme, raw_authority, raw_path, raw_query, {})

PROVIDER_NAME_GOOGLE == "google"
PROVIDER_NAME_CLOUDFLARE == "cloudflare"
PROVIDER_NAME_QUAD9 == "quad9"
PROVIDER_NAME_QUAD9_SECURED == "quad9-secured"
PROVIDER_NAME_QUAD9_UNSECURED == "quad9-unsecured"
PROVIDER_NAME_RUBYFISH == "rubyfish"
PROVIDER_NAME_BLAHDNS == "blahdns"

\* Mutant of defaults: the registry lacks the Cloudflare entry.
defaults_without_cloudflare ==
  (PROVIDER_NAME_GOOGLE :> from_raw_parts("https", "dns.google.com", "/resolve", <<>>))
  @@ (PROVIDER_NAME_QUAD9 :> from_raw_parts("https", "dns.quad9.net", "/dns-query", <<>>))

\* DoHJsonProvider::defaults(): the registry, a map from identifier to provider.
defaults ==
  (PROVIDER_NAME_GOOGLE :>
     from_raw_parts("https", "dns.google.com", "/resolve", <<>>))
  @@ (PROVIDER_NAME_CLOUDFLARE :>
     from_raw_parts_with_headers("https", "cloudflare-dns.com", "/dns-query", <<>>,
                                 { <<"accept", "application/dns-json">> }))
  @@ (PROVIDER_NAME_QUAD9 :>
     from_raw_parts("https", "dns.quad9.net", "/dns-query", <<>>))
  @@ (PROVIDER_NAME_QUAD9_SECURED :>
     from_raw_parts("https", "dns9.quad9.net", "/dns-query", <<>>))
  @@ (PROVIDER_NAME_QUAD9_UNSECURED :>
     from_raw_parts("https", "dns10.quad9.net", "/dns-query", <<>>))
  @@ (PROVIDER_NAME_RUBYFISH :>
     from_raw_parts("https", "dns.rubyfish.cn", "/dns-query", <<>>))
  @@ (PROVIDER_NAME_BLAHDNS :>
     from_raw_parts("https", "doh-de.blahdns.com", "/dns-query", <<>>))

NoProvider == [some |-> FALSE]

\* HashMap::get on the registry.
defaults_get(id) ==
  IF id \in DOMAIN defaults
  THEN [some |-> TRUE, id |-> id, value |-> defaults[id]]
  ELSE NoProvider

\* impl Default for DoHJsonProvider: defaults().get(cloudflare).unwrap();
\* the unwrap of None is a panic.
Default ==
  LET found == defaults_get(PROVIDER_NAME_CLOUDFLARE)
  IN IF found.some THEN found ELSE [some |-> FALSE, panicked |-> TRUE]

\* How the provider in use was obtained: the call, its argument, its result.
ProviderCall(call, arg, result) == [call |-> call, arg |-> arg, result |-> result]

NoHttpRequest == << >>

\* --------------------------------------------------------------- variables
\* Processor workers that call resolve at the same time, and what a worker
\* and a thread of the resolver's pool hold when they hold nothing.
Workers == 1..NumWorkers
NoCall == [st |-> "idle", queries |-> <<>>, chan |-> <<>>, taken |-> 0]
NoJob == [call |-> 0, question |-> 0, phase |-> "idle", result |-> [ok |-> FALSE]]

VARIABLES
  status,      \* Server.status (srvzio::ServiceStatusFlag)
  threads,     \* Server.threads: join handles, as endpoint numbers
  lpc,         \* per endpoint: position of its listener thread
  buf,         \* per endpoint: the listener's receive buffer
  recvd,       \* history: the datagrams received, [bytes, src, ep, published, err]
  queue,       \* the Queue: Requests [source, dns_query, udp_socket, dg]
  is_running,  \* Processor.is_running
  rthread,     \* position of the Processor's receiver thread
  task,        \* per received datagram: state of its worker task
  wire,        \* history: responses sent, [to, via, bytes, dg]
  mainpc,      \* position of main()
  hpc,         \* position of the termination handler
  rq, rstate, rtask, chan, taken, res, calls, applied,
  processor_alive,  \* the Processor (owner of a Receiver of the Queue) exists
  server_alive,     \* the Server (owner of a Sender of the Queue) exists
  apc,         \* position of a caller of Server::await_started
  aplog,       \* history: the apply calls made, [reply, subnet, prefix]
  provider,    \* the DoHJsonProvider in use, as an Option
  http_request, \* the last result of build_http_request
  json,        \* conversions of one reply body: text, value, text, value
  pcall,       \* per Processor worker: its resolve_query call
  pjobs,       \* the job queue of the resolver's thread pool
  prun         \* per thread of the resolver's pool: the job it runs

pipeVars == <<status, threads, lpc, buf, recvd, queue, is_running, rthread,
              task, wire, mainpc, hpc>>
resolveVars == <<rq, rstate, rtask, chan, taken, res, calls, applied>>
svcVars == <<processor_alive, server_alive, apc>>
poolVars == <<pcall, pjobs, prun>>
unitVars == <<provider, http_request, json, poolVars>>
vars == <<pipeVars, resolveVars, svcVars, aplog, unitVars>>

ZeroBuf == [i \in 1..BufLen |-> 0]

ResolveIdle ==
  /\ rq = DnsMessageNew
  /\ rstate = "idle"
  /\ rtask = <<>>
  /\ chan = <<>>
  /\ taken = 0
  /\ res = ResponseHeader(rq)
  /\ calls = <<>>
  /\ applied = <<>>

PipeIdle ==
  /\ status = "NotStarted"
  /\ threads = <<>>
  /\ lpc = [e \in Endpoints |-> "none"]
  /\ buf = [e \in Endpoints |-> ZeroBuf]
  /\ recvd = <<>>
  /\ queue = <<>>
  /\ is_running = FALSE
  /\ rthread = "none"
  /\ task = <<>>
  /\ wire = <<>>
  /\ mainpc = "init"
  /\ hpc = "idle"

\* main() has built the Processor (line 29); nobody awaits the Server's start.
ServiceIdle ==
  /\ processor_alive = TRUE
  /\ server_alive = TRUE
  /\ apc = "idle"

ApplyIdle == aplog = <<>>

\* No resolve call is running and the resolver's pool has nothing to do.
ResolverPoolIdle ==
  /\ pcall = [w \in Workers |-> NoCall]
  /\ pjobs = <<>>
  /\ prun = [t \in 1..ResolverThreads |-> NoJob]

\* The resolver holds the provider the configuration named, the default one
\* when it named none; no request has been built and no body converted.
UnitIdle ==
  /\ provider = ProviderCall("default", "", Default)
  /\ http_request = NoHttpRequest
  /\ json = <<>>
  /\ ResolverPoolIdle

Init == PipeIdle /\ ResolveIdle /\ ServiceIdle /\ ApplyIdle /\ UnitIdle

\* The process lives until main() returns or panics.
Alive == mainpc \notin {"done", "panicked"}

\* ---------------------------------------------------------------- Request
NoRequest == [source |-> 0, dns_query |-> DnsMessageNew, udp_socket |-> 0, dg |-> 0]

\* Mutant of from_udp: the Request keeps the first bound socket, not the one
\* the datagram arrived on.
from_udp_first_socket(src, dns_message, socket, d) ==
  [source |-> src, dns_query |-> dns_message, udp_socket |-> 1, dg |-> d]

\* Request::from_udp.  dg (the number of the datagram) is a ghost field.
from_udp(src, dns_message, socket, d) ==
  [source |-> src, dns_query |-> dns_message, udp_socket |-> socket, dg |-> d]

\* Mutant of respond: a failed send_to is retried after the first datagram
\* has left.
respond_retry(req, dns_res, ser_ok, send_ok) ==
  IF ser_ok
  THEN LET dgram == [to |-> req.source, via |-> req.udp_socket,
                     bytes |-> dns_message_to_bytes(dns_res), dg |-> req.dg]
       IN IF send_ok THEN << dgram >> ELSE << dgram, dgram >>
  ELSE << >>

\* Mutant of respond: after a failed send_to the datagram is sent again, and
\* the second attempt delivers it.
respond_resend_on_error(req, dns_res, ser_ok, send_ok) ==
  IF ser_ok
  THEN << [to |-> req.source, via |-> req.udp_socket,
           bytes |-> dns_message_to_bytes(dns_res), dg |-> req.dg] >>
  ELSE << >>

\* Request::respond: the datagrams it puts on the wire.  A message of type
\* Query is only logged; serialization and send_to failures are logged.
respond(req, dns_res, ser_ok, send_ok) ==
  IF ser_ok /\ send_ok
  THEN << [to |-> req.source, via |-> req.udp_socket,
           bytes |-> dns_message_to_bytes(dns_res), dg |-> req.dg] >>
  ELSE << >>

\* ----------------------------------------------------------------- Server
\* recv_from writes the datagram over the start of the buffer and leaves the
\* rest of the buffer as it was.
recv_from(b, dg) ==
  [i \in 1..BufLen |-> IF i <= Len(dg) THEN dg[i] ELSE b[i]]

\* The listener decodes the whole buffer and publishes Queries only.
IsQuery(decoded) == decoded.ok /\ decoded.msg.message_type = "Query"

\* Mutant of MainServerStartBindFails: sockets are bound one listener at a
\* time, so the first listener is running when the second bind panics.
MainServerStartBindFailsLate ==
  /\ mainpc = "procStarted"
  /\ status' = "Starting"
  /\ lpc' = [lpc EXCEPT ![1] = "spawned"]
  /\ threads' = << 1 >>
  /\ mainpc' = "panicked"
  /\ UNCHANGED <<buf, recvd, queue, is_running, rthread, task, wire, hpc>>
  /\ UNCHANGED resolveVars
  /\ UNCHANGED <<svcVars, aplog, unitVars>>

\* main(): server.start() when a bind fails: bind_udp_sockets panics.
MainServerStartBindFails ==
  /\ mainpc = "procStarted"
  /\ status' = "Starting"
  /\ mainpc' = "panicked"
  /\ UNCHANGED <<threads, lpc, buf, recvd, queue, is_running, rthread, task,
                 wire, hpc>>
  /\ UNCHANGED resolveVars
  /\ UNCHANGED <<svcVars, aplog, unitVars>>

\* Mutant of MainServerStart: main() starts the Server before the Processor.
MainServerStartFirst ==
  /\ mainpc = "init"
  /\ \A e \in Endpoints : lpc[e] = "none"
  /\ status' = "Starting"
  /\ lpc' = [e \in Endpoints |-> "spawned"]
  /\ threads' = [i \in 1..NumEndpoints |-> i]
  /\ UNCHANGED <<buf, recvd, queue, is_running, rthread, task, wire, mainpc, hpc>>
  /\ UNCHANGED resolveVars
  /\ UNCHANGED <<svcVars, aplog, unitVars>>

\* main(): server.start(): one listener thread per bound socket.
MainServerStart ==
  /\ mainpc = "procStarted"
  /\ status' = "Starting"
  /\ lpc' = [e \in Endpoints |-> "spawned"]
  /\ threads' = [i \in 1..NumEndpoints |-> i]
  /\ mainpc' = "srvStarted"
  /\ UNCHANGED <<buf, recvd, queue, is_running, rthread, task, wire, hpc>>
  /\ UNCHANGED resolveVars
  /\ UNCHANGED <<svcVars, aplog, unitVars>>

\* Listener thread: set the read timeout, report started, enter the loop.
ListenerInit(e) ==
  /\ Alive
  /\ lpc[e] = "spawned"
  /\ status' = "Started"
  /\ lpc' = [lpc EXCEPT ![e] = "loop"]
  /\ UNCHANGED <<threads, buf, recvd, queue, is_running, rthread, task, wire,
                 mainpc, hpc>>
  /\ UNCHANGED resolveVars
  /\ UNCHANGED <<svcVars, aplog, unitVars>>

\* Mutant of Disconnected: a send on the Queue never fails.
NeverDisconnected == FALSE

\* The Queue has lost every Receiver: the Processor owns one and its receiver
\* thread holds a clone until it ends.  A send then fails.
Disconnected == ~processor_alive /\ rthread \notin {"loop", "joining"}

\* Listener thread: recv_from returned a datagram dg sent by client c.
ListenerRecv(e, dg, c) ==
  /\ Alive
  /\ lpc[e] = "loop"
  /\ Len(recvd) < MaxDatagrams
  /\ LET b == recv_from(buf[e], dg)
         decoded == dns_message_from_bytes(b)
         d == Len(recvd) + 1
     IN /\ buf' = [buf EXCEPT ![e] = b]
        /\ \E clone_ok \in BOOLEAN :
             LET err == IF ~IsQuery(decoded) THEN "none"
                        ELSE IF ~clone_ok THEN "clone"       \* try_clone().unwrap()
                        ELSE IF Disconnected THEN "send"     \* send().expect()
                        ELSE "none"
                 published == IsQuery(decoded) /\ err = "none"
             IN /\ recvd' = Append(recvd, [bytes |-> dg, src |-> c, ep |-> e,
                                           published |-> published, err |-> err])
                /\ queue' = IF published
                            THEN Append(queue, from_udp(c, decoded.msg, e, d))
                            ELSE queue
                /\ lpc' = IF err # "none" THEN [lpc EXCEPT ![e] = "panicked"] ELSE lpc
        /\ task' = Append(task, [st |-> "none", req |-> NoRequest])
  /\ UNCHANGED <<status, threads, is_running, rthread, wire, mainpc, hpc>>
  /\ UNCHANGED resolveVars
  /\ UNCHANGED <<svcVars, aplog, unitVars>>

\* Listener thread: recv_from timed out: poll the shutdown flag.
ListenerTimeout(e) ==
  /\ Alive
  /\ lpc[e] = "loop"
  /\ lpc' = IF status = "Stopping" THEN [lpc EXCEPT ![e] = "exited"] ELSE lpc
  /\ UNCHANGED <<status, threads, buf, recvd, queue, is_running, rthread, task,
                 wire, mainpc, hpc>>
  /\ UNCHANGED resolveVars
  /\ UNCHANGED <<svcVars, aplog, unitVars>>

\* Listener thread: recv_from failed with another error: log and go on.
ListenerRecvError(e) ==
  /\ Alive
  /\ lpc[e] = "loop"
  /\ UNCHANGED pipeVars
  /\ UNCHANGED resolveVars
  /\ UNCHANGED <<svcVars, aplog, unitVars>>

\* Mutant of MainJoinListener: the result of join() is dropped.
MainJoinListenerUnchecked ==
  /\ mainpc = "srvStarted"
  /\ threads # <<>>
  /\ lpc[threads[Len(threads)]] \in {"exited", "panicked"}
  /\ threads' = SubSeq(threads, 1, Len(threads) - 1)
  /\ UNCHANGED <<status, lpc, buf, recvd, queue, is_running, rthread, task,
                 wire, mainpc, hpc>>
  /\ UNCHANGED resolveVars
  /\ UNCHANGED <<svcVars, aplog, unitVars>>

\* main(): Server::await_stopped joins the thread popped last.
MainJoinListener ==
  /\ mainpc = "srvStarted"
  /\ threads # <<>>
  /\ LET t == threads[Len(threads)] IN
       /\ lpc[t] \in {"exited", "panicked"}
       /\ threads' = SubSeq(threads, 1, Len(threads) - 1)
       /\ mainpc' = IF lpc[t] = "panicked" THEN "panicked" ELSE mainpc
  /\ UNCHANGED <<status, lpc, buf, recvd, queue, is_running, rthread, task,
                 wire, hpc>>
  /\ UNCHANGED resolveVars
  /\ UNCHANGED <<svcVars, aplog, unitVars>>

\* main(): Server::await_stopped, every thread joined: status.stopped().
MainServerStopped ==
  /\ mainpc = "srvStarted"
  /\ threads = <<>>
  /\ status' = "Stopped"
  /\ mainpc' = "srvAwaited"
  /\ UNCHANGED <<threads, lpc, buf, recvd, queue, is_running, rthread, task,
                 wire, hpc>>
  /\ UNCHANGED resolveVars
  /\ UNCHANGED <<svcVars, aplog, unitVars>>

\* Termination handler, step 1: Server::stop.
HandlerStopServer ==
  /\ Alive
  /\ hpc = "idle"
  /\ status' = "Stopping"
  /\ hpc' = "serverStopRequested"
  /\ UNCHANGED <<threads, lpc, buf, recvd, queue, is_running, rthread, task,
                 wire, mainpc>>
  /\ UNCHANGED resolveVars
  /\ UNCHANGED <<svcVars, aplog, unitVars>>

\* -------------------------------------------------------------- Processor
\* main(): Processor::start: set is_running, spawn the receiver thread.
MainProcessorStart ==
  /\ mainpc = "init"
  /\ is_running' = TRUE
  /\ rthread' = "loop"
  /\ mainpc' = "procStarted"
  /\ UNCHANGED <<status, threads, lpc, buf, recvd, queue, task, wire, hpc>>
  /\ UNCHANGED resolveVars
  /\ UNCHANGED <<svcVars, aplog, unitVars>>

\* Termination handler, step 2: Processor::stop.
HandlerStopProcessor ==
  /\ Alive
  /\ hpc = "serverStopRequested"
  /\ is_running' = FALSE
  /\ hpc' = "done"
  /\ UNCHANGED <<status, threads, lpc, buf, recvd, queue, rthread, task, wire,
                 mainpc>>
  /\ UNCHANGED resolveVars
  /\ UNCHANGED <<svcVars, aplog, unitVars>>

\* Mutant of Dequeue: the receive hands the head of the Queue to a worker
\* task and leaves it in the Queue.
DequeueLeavesRequest ==
  /\ Alive
  /\ rthread = "loop"
  /\ queue # <<>>
  /\ LET req == Head(queue) IN
       task' = [task EXCEPT ![req.dg] = [st |-> "resolving", req |-> req]]
  /\ UNCHANGED <<status, threads, lpc, buf, recvd, queue, is_running, rthread,
                 wire, mainpc, hpc>>
  /\ UNCHANGED resolveVars
  /\ UNCHANGED <<svcVars, aplog, unitVars>>

\* Receiver thread: recv_timeout returned a Request: pool.execute hands it to
\* a worker, which begins resolve_and_respond.
Dequeue ==
  /\ Alive
  /\ rthread = "loop"
  /\ queue # <<>>
  /\ LET req == Head(queue) IN
       task' = [task EXCEPT ![req.dg] = [st |-> "resolving", req |-> req]]
  /\ queue' = Tail(queue)
  /\ UNCHANGED <<status, threads, lpc, buf, recvd, is_running, rthread, wire,
                 mainpc, hpc>>
  /\ UNCHANGED resolveVars
  /\ UNCHANGED <<svcVars, aplog, unitVars>>

\* Whether the receiver thread leaves its loop when recv_timeout times out.
ExitOnTimeout == ~is_running

\* Mutant of DequeueTimeout: the receiver thread reads is_running on every
\* turn of its loop, also while a Request is waiting.
DequeueTimeoutWhileWaiting ==
  /\ Alive
  /\ rthread = "loop"
  /\ rthread' = IF ExitOnTimeout THEN "joining" ELSE rthread
  /\ UNCHANGED <<status, threads, lpc, buf, recvd, queue, is_running, task,
                 wire, mainpc, hpc>>
  /\ UNCHANGED resolveVars
  /\ UNCHANGED <<svcVars, aplog, unitVars>>

\* The Queue has lost every Sender: the Server owns one and each listener
\* thread holds a clone until it ends.  A receive on the empty Queue then
\* fails at once instead of timing out.
SendersDropped ==
  ~server_alive /\ \A e \in Endpoints : lpc[e] \notin {"spawned", "loop"}

\* Receiver thread: recv_timeout timed out (the Queue stayed empty).
DequeueTimeout ==
  /\ Alive
  /\ rthread = "loop"
  /\ queue = <<>>
  /\ ~SendersDropped
  /\ rthread' = IF ExitOnTimeout THEN "joining" ELSE rthread
  /\ UNCHANGED <<status, threads, lpc, buf, recvd, queue, is_running, task,
                 wire, mainpc, hpc>>
  /\ UNCHANGED resolveVars
  /\ UNCHANGED <<svcVars, aplog, unitVars>>

\* Receiver thread: recv_timeout failed with another error (the Queue is
\* empty and disconnected): log and go on.
DequeueDisconnected ==
  /\ Alive
  /\ rthread = "loop"
  /\ queue = <<>>
  /\ SendersDropped
  /\ UNCHANGED pipeVars
  /\ UNCHANGED resolveVars
  /\ UNCHANGED <<svcVars, aplog, unitVars>>

\* Mutant of PoolIdle: the receiver thread does not wait for the pool.
PoolNotJoined == TRUE

\* pool.join() returns when no task is queued or running.
PoolIdle == \A d \in 1..Len(task) : task[d].st # "resolving"

\* Receiver thread: pool.join() returned: the thread ends.
PoolJoined ==
  /\ Alive
  /\ rthread = "joining"
  /\ PoolIdle
  /\ rthread' = "ended"
  /\ UNCHANGED <<status, threads, lpc, buf, recvd, queue, is_running, task,
                 wire, mainpc, hpc>>
  /\ UNCHANGED resolveVars
  /\ UNCHANGED <<svcVars, aplog, unitVars>>

\* main(): Processor::await_termination joins the receiver thread.
MainAwaitTermination ==
  /\ mainpc = "srvAwaited"
  /\ rthread = "ended"
  /\ mainpc' = "done"
  /\ UNCHANGED <<status, threads, lpc, buf, recvd, queue, is_running, rthread,
                 task, wire, hpc>>
  /\ UNCHANGED resolveVars
  /\ UNCHANGED <<svcVars, aplog, unitVars>>

\* Worker: resolve returned (or panicked) and, on Ok, respond was called.
\* A resolve that never returns leaves the task in "resolving".
WorkerFinish(d) ==
  /\ Alive
  /\ task[d].st = "resolving"
  /\ LET req == task[d].req
         q == req.dns_query
     IN \E panics, ser_ok, send_ok \in BOOLEAN :
          IF q.message_type # "Query"
          THEN /\ task' = [task EXCEPT ![d].st = "dropped"]
               /\ UNCHANGED wire
          ELSE IF panics
          THEN /\ task' = [task EXCEPT ![d].st = "panicked"]
               /\ UNCHANGED wire
          ELSE /\ task' = [task EXCEPT ![d].st = "responded"]
               /\ wire' = wire \o respond(req, ResponseHeader(q), ser_ok, send_ok)
  /\ UNCHANGED <<status, threads, lpc, buf, recvd, queue, is_running, rthread,
                 mainpc, hpc>>
  /\ UNCHANGED resolveVars
  /\ UNCHANGED <<svcVars, aplog, unitVars>>

\* ------------------------------------------------------- DoH JSON reply
\* Record types (IANA numbers).
TypeA == 1
TypeNS == 2
TypeCNAME == 5
TypeSOA == 6
TypePTR == 12
TypeAAAA == 28

\* Strings DnsDomainName::from_str accepts, and the addresses the std
\* parsers accept, with the octets they yield.
ValidNames == {"example.com.", "www.ivandemarino.me.", "detro.github.com."}
Ipv4FromStr == [s \in {"93.184.216.34"} |-> <<93, 184, 216, 34>>]
Ipv6FromStr == [s \in {"::1"} |-> <<0, 0, 0, 0, 0, 0, 0, 0, 0, 0, 0, 0, 0, 0, 0, 1>>]

NoSubnet == [some |-> FALSE, family |-> 0, addr |-> <<>>, scope |-> 0]

\* IpNet::from_str: the strings it accepts, with the address (as written,
\* host bits kept) and the prefix length it yields.
IpNetFromStr ==
  [s \in {"12.34.56.0/0", "198.51.100.77/24", "2001:db8::1/56"} |->
     CASE s = "12.34.56.0/0" -> [family |-> 4, addr |-> <<12, 34, 56, 0>>, scope |-> 0]
       [] s = "198.51.100.77/24" ->
            [family |-> 4, addr |-> <<198, 51, 100, 77>>, scope |-> 24]
       [] s = "2001:db8::1/56" ->
            [family |-> 6, scope |-> 56,
             addr |-> <<32, 1, 13, 184, 0, 0, 0, 0, 0, 0, 0, 0, 0, 0, 0, 1>>] ]

\* Values the edns_client_subnet member of a reply body can have.
RawSubnets == DOMAIN IpNetFromStr \cup {"", "12.34.56.0"}

\* DoHJsonResponse::edns_client_subnet_deserialize: a string that does not
\* parse gives None.
edns_client_subnet_deserialize(raw) ==
  IF raw \in DOMAIN IpNetFromStr
  THEN [some |-> TRUE, family |-> IpNetFromStr[raw].family,
        addr |-> IpNetFromStr[raw].addr, scope |-> IpNetFromStr[raw].scope]
  ELSE NoSubnet
Subnet4 == [some |-> TRUE, family |-> 4, addr |-> <<12, 34, 56, 0>>, scope |-> 0]

DoHJsonResponseDefault ==
  [Status |-> 0, TC |-> FALSE, RD |-> TRUE, RA |-> TRUE, AD |-> FALSE,
   CD |-> FALSE, Question |-> <<>>, Answer |-> <<>>, Additional |-> <<>>,
   edns_client_subnet |-> NoSubnet, Comment |-> ""]

\* The parsed replies an upstream body can hold.
Replies ==
  << \* an A answer
     [DoHJsonResponseDefault EXCEPT
        !.Question = << [name |-> "example.com.", type |-> TypeA] >>,
        !.Answer = << [name |-> "example.com.", type |-> TypeA, TTL |-> 300,
                       data |-> "93.184.216.34"] >>],
     \* NXDOMAIN, truncated, authenticated, with a client subnet
     [DoHJsonResponseDefault EXCEPT
        !.Status = 3, !.TC = TRUE, !.RD = FALSE, !.AD = TRUE,
        !.Question = << [name |-> "www.ivandemarino.me.", type |-> TypeAAAA] >>,
        !.edns_client_subnet = Subnet4],
     \* an unsupported record type followed by a CNAME
     [DoHJsonResponseDefault EXCEPT
        !.CD = TRUE,
        !.Answer = << [name |-> "example.com.", type |-> TypeSOA, TTL |-> 60,
                       data |-> "ns. hostmaster. 1 2 3 4 5"],
                      [name |-> "www.ivandemarino.me.", type |-> TypeCNAME,
                       TTL |-> 120, data |-> "detro.github.com."] >>],
     \* an A answer whose data is no IPv4 address
     [DoHJsonResponseDefault EXCEPT
        !.Answer = << [name |-> "example.com.", type |-> TypeA, TTL |-> 300,
                       data |-> "not-an-address"] >>],
     \* AAAA, an unsupported type, NS and PTR answers
     [DoHJsonResponseDefault EXCEPT
        !.Status = 2,
        !.Answer = << [name |-> "www.ivandemarino.me.", type |-> TypeAAAA,
                       TTL |-> 7, data |-> "::1"],
                      [name |-> "example.com.", type |-> TypeSOA, TTL |-> 60,
                       data |-> "ns. hostmaster. 1 2 3 4 5"],
                      [name |-> "example.com.", type |-> TypeNS, TTL |-> 3600,
                       data |-> "detro.github.com."],
                      [name |-> "detro.github.com.", type |-> TypePTR,
                       TTL |-> 0, data |-> "example.com."] >>] >>

\* RDATA of a supported answer, parsed from its data string.
RDataOk(a) ==
  CASE a.type = TypeA -> a.data \in DOMAIN Ipv4FromStr
    [] a.type = TypeAAAA -> a.data \in DOMAIN Ipv6FromStr
    [] a.type \in {TypeCNAME, TypeNS, TypePTR} -> a.data \in ValidNames
    [] OTHER -> TRUE

RData(a) ==
  CASE a.type = TypeA -> Ipv4FromStr[a.data]
    [] a.type = TypeAAAA -> Ipv6FromStr[a.data]
    [] OTHER -> a.data

Supported(a) == a.type \in {TypeA, TypeAAAA, TypeCNAME, TypeNS, TypePTR}

\* apply panics on an unwrap of a failed parse.
ApplyPanics(J) ==
  \/ \E i \in 1..Len(J.Question) : J.Question[i].name \notin ValidNames
  \/ \E i \in 1..Len(J.Answer) :
       J.Answer[i].name \notin ValidNames \/ ~RDataOk(J.Answer[i])

\* Mutant of AnswerRecords: the first answer of an unsupported type ends the
\* loop over the answers.
AnswerRecordsUntilUnsupported(as) ==
  LET bad == { i \in 1..Len(as) : ~Supported(as[i]) }
      n == IF bad = {} THEN Len(as)
           ELSE (CHOOSE i \in bad : \A j \in bad : i <= j) - 1
  IN [i \in 1..n |-> [name |-> as[i].name, ttl |-> as[i].TTL,
                      type |-> as[i].type, rdata |-> RData(as[i])]]

RECURSIVE AnswerRecords(_)
AnswerRecords(as) ==
  IF as = <<>> THEN <<>>
  ELSE LET a == Head(as) IN
       (IF Supported(a)
        THEN << [name |-> a.name, ttl |-> a.TTL, type |-> a.type, rdata |-> RData(a)] >>
        ELSE << >>) \o AnswerRecords(Tail(as))

\* Mutant of edns_from_client_subnet: scope prefix before source prefix.
edns_scope_first(req_subnet_prefix_len, res_subnet) ==
  LET option_data == <<0, IF res_subnet.family = 4 THEN 1 ELSE 2,
                       res_subnet.scope, req_subnet_prefix_len>> \o res_subnet.addr
  IN << [code |-> "Subnet", length |-> Len(option_data), data |-> option_data] >>

\* The Subnet option: <<code, declared length, data>>.
edns_from_client_subnet(req_subnet_prefix_len, res_subnet) ==
  LET option_data == <<0, IF res_subnet.family = 4 THEN 1 ELSE 2,
                       req_subnet_prefix_len, res_subnet.scope>> \o res_subnet.addr
  IN << [code |-> "Subnet", length |-> Len(option_data), data |-> option_data] >>

\* Mutant of apply: a flag that is already set stays set, and the rcode of
\* an earlier reply is kept.
apply_sticky_header(J, req_edns_client_subnet_prefix_len, m) ==
  [m EXCEPT !.truncated = @ \/ J.TC,
            !.recursion_desired = @ \/ J.RD,
            !.recursion_available = @ \/ J.RA,
            !.authentic_data = @ \/ J.AD,
            !.checking_disabled = @ \/ J.CD,
            !.response_code = IF @ # 0 THEN @ ELSE J.Status,
            !.queries = @ \o J.Question,
            !.answers = @ \o AnswerRecords(J.Answer),
            !.edns = IF J.edns_client_subnet.some
                     THEN edns_from_client_subnet(req_edns_client_subnet_prefix_len,
                                                  J.edns_client_subnet)
                     ELSE @]

\* Mutant of apply: the records of a reply are put before those already in
\* the response.
apply_answers_in_front(J, req_edns_client_subnet_prefix_len, m) ==
  [m EXCEPT !.truncated = J.TC,
            !.recursion_desired = J.RD,
            !.recursion_available = J.RA,
            !.authentic_data = J.AD,
            !.checking_disabled = J.CD,
            !.response_code = J.Status,
            !.queries = @ \o J.Question,
            !.answers = AnswerRecords(J.Answer) \o @,
            !.edns = IF J.edns_client_subnet.some
                     THEN edns_from_client_subnet(req_edns_client_subnet_prefix_len,
                                                  J.edns_client_subnet)
                     ELSE @]

\* DoHJsonResponse::apply, when no parse fails.
apply(J, req_edns_client_subnet_prefix_len, m) ==
  [m EXCEPT !.truncated = J.TC,
            !.recursion_desired = J.RD,
            !.recursion_available = J.RA,
            !.authentic_data = J.AD,
            !.checking_disabled = J.CD,
            !.response_code = J.Status,
            !.queries = @ \o J.Question,
            !.answers = @ \o AnswerRecords(J.Answer),
            !.edns = IF J.edns_client_subnet.some
                     THEN edns_from_client_subnet(req_edns_client_subnet_prefix_len,
                                                  J.edns_client_subnet)
                     ELSE @]

\* ---------------------------------------------------------------- resolver
\* Questions of a query: [name, type].  The provider cannot build a URI for
\* a name that PathAndQuery::from_str rejects.
UnbuildableNames == {"b\\195\\188cher.example."}
Questions ==
  { [name |-> "example.com.", type |-> TypeA],
    [name |-> "b\\195\\188cher.example.", type |-> TypeA] }

\* The mnemonic a DnsRecordType converts into.
RecordTypeStr ==
  (TypeA :> "A") @@ (TypeNS :> "NS") @@ (TypeCNAME :> "CNAME")
  @@ (TypeSOA :> "SOA") @@ (TypePTR :> "PTR") @@ (TypeAAAA :> "AAAA")

\* DoHJsonProvider::build_http_request.  A URI is the sequence of the
\* strings it is formatted from; PathAndQuery::from_str fails on a name it
\* rejects.
build_http_request(self, dns_query) ==
  LET query_type == RecordTypeStr[dns_query.type]
      query_name == dns_query.name
      path_query ==
        IF self.query # <<>>
        THEN <<self.path, "?type=", query_type, "&name=", query_name, "&",
               self.query[1]>>
        ELSE <<self.path, "?type=", query_type, "&name=", query_name>>
  IN IF query_name \in UnbuildableNames THEN Err
     ELSE [ok |-> TRUE,
           req |-> [version |-> "HTTP/1.1", method |-> "GET",
                    uri |-> <<self.scheme, "://", self.authority>> \o path_query,
                    headers |-> self.headers, body |-> << >>]]

\* What the upstream does with one HTTPS call: a transport failure, or an
\* HTTP status with a body: 0 is a body that is no DoH JSON, k is Replies[k].
HttpStatuses == {200, 500}
Outcomes == [transport_ok : BOOLEAN, status : HttpStatuses, body : 0..Len(Replies)]

\* execute_http_request: only a transfer that fails or a body that does not
\* parse is an error; the HTTP status is not read.
execute_http_request(req_http, o) ==
  IF ~o.transport_ok THEN Err
  ELSE IF o.body = 0 THEN Err
  ELSE [ok |-> TRUE, reply |-> Replies[o.body]]

RECURSIVE SeqsUpTo(_, _)
SeqsUpTo(S, n) ==
  IF n = 0 THEN { <<>> }
  ELSE LET shorter == SeqsUpTo(S, n - 1) IN
       shorter \cup { Append(q, x) : q \in { t \in shorter : Len(t) = n - 1 }, x \in S }

\* EDNS of a query: none, or an OPT record whose Client Subnet option asks
\* for 198.51.100.0/24: family 0,1, source prefix 24, scope 0, three octets.
QuerySubnet ==
  << [code |-> "Subnet", length |-> 7, data |-> <<0, 1, 24, 0, 198, 51, 100>>] >>
QueryEdns == { <<>>, QuerySubnet }

Queries ==
  { [DnsMessageNew EXCEPT !.id = i, !.op_code = op, !.queries = qs, !.edns = e] :
      i \in {1, 2}, op \in {0, 2}, qs \in SeqsUpTo(Questions, MaxQuestions),
      e \in QueryEdns }

\* The messages resolve can be given: the Queries, and the same messages with
\* the type Response.
Messages ==
  Queries \cup { [q EXCEPT !.message_type = "Response"] : q \in Queries }

\* Mutant of resolve_checks_type: resolve does not look at the type.
resolve_accepts_any(dns_message) == TRUE

\* DoHResolver::resolve: the check made before resolve_query is called.
resolve_checks_type(dns_message) == dns_message.message_type = "Query"

InitResolve ==
  /\ PipeIdle
  /\ ServiceIdle
  /\ ApplyIdle
  /\ UnitIdle
  /\ rq \in Messages
  /\ rstate = "resolveCalled"
  /\ rtask = <<>>
  /\ chan = <<>>
  /\ taken = 0
  /\ res = DnsMessageNew
  /\ calls = <<>>
  /\ applied = <<>>

\* DoHResolver::resolve: call resolve_query for a Query, return
\* Err(DoHResolutionError) for anything else.
Resolve ==
  /\ rstate = "resolveCalled"
  /\ rstate' = IF resolve_checks_type(rq) THEN "called" ELSE "invalid"
  /\ UNCHANGED <<rq, rtask, chan, taken, res, calls, applied>>
  /\ UNCHANGED pipeVars
  /\ UNCHANGED <<svcVars, aplog, unitVars>>

\* resolve_query: prepare the response, open the result channel and hand one
\* task per question to the pool.
ResolveSpawn ==
  /\ rstate = "called"
  /\ res' = ResponseHeader(rq)
  /\ rtask' = [i \in 1..Len(rq.queries) |-> "queued"]
  /\ rstate' = "collecting"
  /\ UNCHANGED <<rq, chan, taken, calls, applied>>
  /\ UNCHANGED pipeVars
  /\ UNCHANGED <<svcVars, aplog, unitVars>>

\* Pool thread: the task of question i: build the request (unwrap), execute
\* it, send the result on the channel.
ResolveTask(i, o) ==
  /\ rstate \in {"collecting", "done", "panicked"}
  /\ rtask[i] = "queued"
  /\ LET req_http == build_http_request(provider.result.value, rq.queries[i]) IN
       IF ~req_http.ok
       THEN /\ rtask' = [rtask EXCEPT ![i] = "panicked"]
            /\ UNCHANGED <<chan, calls>>
       ELSE /\ rtask' = [rtask EXCEPT ![i] = "done"]
            /\ calls' = Append(calls, [question |-> i, outcome |-> o])
            /\ chan' = Append(chan, [question |-> i,
                                     result |-> execute_http_request(req_http.req, o)])
  /\ UNCHANGED <<rq, rstate, taken, res, applied>>
  /\ UNCHANGED pipeVars
  /\ UNCHANGED <<svcVars, aplog, unitVars>>

\* resolve_query: rx.iter().take(queries_count): take one result and apply
\* it, or log its error.
ResolveCollect ==
  /\ rstate = "collecting"
  /\ taken < Len(rq.queries)
  /\ chan # <<>>
  /\ LET r == Head(chan) IN
       IF r.result.ok
       THEN IF ApplyPanics(r.result.reply)
            THEN /\ rstate' = "panicked"
                 /\ UNCHANGED <<res, applied>>
            ELSE /\ res' = apply(r.result.reply, 0, res)
                 /\ applied' = Append(applied, r.question)
                 /\ UNCHANGED rstate
       ELSE UNCHANGED <<rstate, res, applied>>
  /\ chan' = Tail(chan)
  /\ taken' = taken + 1
  /\ UNCHANGED <<rq, rtask, calls>>
  /\ UNCHANGED pipeVars
  /\ UNCHANGED <<svcVars, aplog, unitVars>>

\* Mutant of ResolveReturn: resolve_query waits for one result before it
\* looks at the number of results it has to take.
ResolveReturnAfterRecv ==
  /\ rstate = "collecting"
  /\ taken = Len(rq.queries)
  /\ taken >= 1
  /\ rstate' = "done"
  /\ UNCHANGED <<rq, rtask, chan, taken, res, calls, applied>>
  /\ UNCHANGED pipeVars
  /\ UNCHANGED <<svcVars, aplog, unitVars>>

\* resolve_query: every result taken: return Ok(res_dns_msg).
ResolveReturn ==
  /\ rstate = "collecting"
  /\ taken = Len(rq.queries)
  /\ rstate' = "done"
  /\ UNCHANGED <<rq, rtask, chan, taken, res, calls, applied>>
  /\ UNCHANGED pipeVars
  /\ UNCHANGED <<svcVars, aplog, unitVars>>

\* The Request whose query is resolved: datagram 1, received from the last
\* client on the last endpoint.
ResolveRequest == from_udp(NumClients, rq, NumEndpoints, 1)

\* What a respond call came to: the log it wrote, if any.
RespondOutcome(ser_ok, send_ok) ==
  IF ~ser_ok THEN "serializeFailed"
  ELSE IF ~send_ok THEN "sendFailed"
  ELSE "responded"

\* resolve_and_respond: resolve returned Ok(res_msg): req.respond(res_msg).
ResolveRespond ==
  /\ rstate = "done"
  /\ \E ser_ok, send_ok \in BOOLEAN :
       /\ wire' = wire \o respond(ResolveRequest, res, ser_ok, send_ok)
       /\ rstate' = RespondOutcome(ser_ok, send_ok)
  /\ UNCHANGED <<rq, rtask, chan, taken, res, calls, applied>>
  /\ UNCHANGED <<status, threads, lpc, buf, recvd, queue, is_running, rthread,
                 task, mainpc, hpc>>
  /\ UNCHANGED <<svcVars, aplog, unitVars>>

NextResolve ==
  \/ Resolve
  \/ ResolveSpawn
  \/ \E i \in 1..Len(rtask), o \in Outcomes : ResolveTask(i, o)
  \/ ResolveCollect
  \/ ResolveReturn
  \/ ResolveRespond

SpecResolve == InitResolve /\ [][NextResolve]_vars

\* ------------------------------------------------ callers and long runs
\* SpecLive is the pipeline of Spec with the threads scheduled fairly, with
\* traffic that need not end, and with two callers of the components' public
\* methods that main() does not have: one of Server::await_started, and a
\* supervisor that awaits the Processor before the Server.

\* A caller enters Server::await_started after start() has returned.
AwaitStartedCall ==
  /\ Alive
  /\ apc = "idle"
  /\ mainpc \in {"srvStarted", "srvAwaited"}
  /\ apc' = "spinning"
  /\ UNCHANGED <<processor_alive, server_alive>>
  /\ UNCHANGED <<pipeVars, resolveVars, aplog, unitVars>>

\* Whether a poll of await_started ends its loop.
is_started == status = "Started"

\* Server::await_started: while !self.status.is_started() {}.
AwaitStartedReturn ==
  /\ Alive
  /\ apc = "spinning"
  /\ is_started
  /\ apc' = "returned"
  /\ UNCHANGED <<processor_alive, server_alive>>
  /\ UNCHANGED <<pipeVars, resolveVars, aplog, unitVars>>

\* Processor::await_termination called while the Server is still awaited: it
\* joins the receiver thread and consumes the Processor, whose Receiver is
\* dropped.
ProcessorAwaitedFirst ==
  /\ mainpc = "srvStarted"
  /\ processor_alive
  /\ rthread = "ended"
  /\ processor_alive' = FALSE
  /\ UNCHANGED <<server_alive, apc>>
  /\ UNCHANGED <<pipeVars, resolveVars, aplog, unitVars>>

\* The histories recvd, task and wire are not program state: once they are
\* full and every Request has been handled they are forgotten, so that
\* datagrams can go on arriving.
HistoryForget ==
  /\ Alive
  /\ Len(recvd) = MaxDatagrams
  /\ queue = <<>>
  /\ \A d \in 1..Len(task) : task[d].st # "resolving"
  /\ recvd' = <<>>
  /\ task' = <<>>
  /\ wire' = <<>>
  /\ UNCHANGED <<status, threads, lpc, buf, queue, is_running, rthread, mainpc, hpc>>
  /\ UNCHANGED <<resolveVars, svcVars, aplog, unitVars>>

\* The datagrams of SpecLive: the well-formed ones, from one client.
LiveDatagrams == { dg \in Datagrams : dns_message_from_bytes(dg).ok }

ListenerStep(e) ==
  \/ ListenerInit(e)
  \/ \E dg \in LiveDatagrams : ListenerRecv(e, dg, 1)
  \/ ListenerTimeout(e)
  \/ ListenerRecvError(e)

ReceiverStep == Dequeue \/ DequeueTimeout \/ PoolJoined

MainStep ==
  \/ MainProcessorStart
  \/ MainServerStart
  \/ MainServerStartBindFails
  \/ MainJoinListener
  \/ MainServerStopped
  \/ MainAwaitTermination

NextLive ==
  \/ MainStep
  \/ HandlerStopServer
  \/ HandlerStopProcessor
  \/ \E e \in Endpoints : ListenerStep(e)
  \/ ReceiverStep
  \/ \E d \in 1..Len(task) : WorkerFinish(d)
  \/ AwaitStartedCall
  \/ AwaitStartedReturn
  \/ ProcessorAwaitedFirst
  \/ HistoryForget

\* Every thread that can take a step takes one; which step a blocked receive
\* takes (a datagram, a Request, a timeout) is up to the traffic.
FairLive ==
  /\ WF_vars(MainStep)
  /\ WF_vars(HandlerStopProcessor)
  /\ \A e \in Endpoints : WF_vars(ListenerStep(e))
  /\ WF_vars(ReceiverStep)
  /\ \A d \in 1..MaxDatagrams : WF_vars(d \in 1..Len(task) /\ WorkerFinish(d))
  /\ WF_vars(AwaitStartedReturn)
  /\ WF_vars(HistoryForget)

SpecLive == Init /\ [][NextLive]_vars /\ FairLive

\* ------------------------------------------------------------------ apply
\* One response to which replies are applied one after the other, each with
\* the subnet prefix length its caller passes.
Prefixes == {0, 10, 24}

InitApply ==
  /\ PipeIdle
  /\ ServiceIdle
  /\ ApplyIdle
  /\ UnitIdle
  /\ rq \in { q \in Queries : q.queries = <<>> }
  /\ rstate = "applying"
  /\ rtask = <<>>
  /\ chan = <<>>
  /\ taken = 0
  /\ res = ResponseHeader(rq)
  /\ calls = <<>>
  /\ applied = <<>>

\* A body holding Replies[k] with the edns_client_subnet string raw is
\* deserialized and applied with prefix length p; apply panics on an unwrap.
ApplyCall(k, raw, p) ==
  /\ rstate = "applying"
  /\ Len(aplog) < MaxApplies
  /\ LET J == [Replies[k] EXCEPT
                 !.edns_client_subnet = edns_client_subnet_deserialize(raw)]
     IN IF ApplyPanics(J)
        THEN /\ rstate' = "panicked"
             /\ UNCHANGED res
        ELSE /\ res' = apply(J, p, res)
             /\ UNCHANGED rstate
  /\ aplog' = Append(aplog, [reply |-> k, subnet |-> raw, prefix |-> p])
  /\ UNCHANGED <<rq, rtask, chan, taken, calls, applied>>
  /\ UNCHANGED pipeVars
  /\ UNCHANGED <<svcVars, unitVars>>

NextApply ==
  \E k \in 1..Len(Replies), raw \in RawSubnets, p \in Prefixes : ApplyCall(k, raw, p)

SpecApply == InitApply /\ [][NextApply]_vars

\* --------------------------------------------------- respond on its own
\* SpecRespond: Request::respond is called on a Request from any client on
\* any endpoint, with any message: a Response, or (against its documented
\* precondition) a Query.
InitRespond ==
  /\ PipeIdle
  /\ ServiceIdle
  /\ ApplyIdle
  /\ UnitIdle
  /\ res \in Messages
  /\ rq = [res EXCEPT !.message_type = "Query"]
  /\ rstate = "respondCalled"
  /\ rtask = <<>>
  /\ chan = <<>>
  /\ taken = 0
  /\ calls = <<>>
  /\ applied = <<>>

\* Request::respond(res): the type check only logs; then serialize and send.
RespondCall(c, e) ==
  /\ rstate = "respondCalled"
  /\ \E ser_ok, send_ok \in BOOLEAN :
       /\ wire' = wire \o respond(from_udp(c, rq, e, 1), res, ser_ok, send_ok)
       /\ rstate' = RespondOutcome(ser_ok, send_ok)
  /\ UNCHANGED <<rq, rtask, chan, taken, res, calls, applied>>
  /\ UNCHANGED <<status, threads, lpc, buf, recvd, queue, is_running, rthread,
                 task, mainpc, hpc>>
  /\ UNCHANGED <<svcVars, aplog, unitVars>>

NextRespond == \E c \in Clients, e \in Endpoints : RespondCall(c, e)

SpecRespond == InitRespond /\ [][NextRespond]_vars

\* ------------------------------------------------ reply bodies as JSON text
\* A JSON document is the function from the names of its members to their
\* values (member order and white space are left out).  SpecJson parses a
\* reply body, serializes the value, and parses the text again.
MaxConversions == 4

\* Display of an IpNet: the address as written by std, "/", the prefix length.
IpNetToString(subnet) ==
  CASE subnet.family = 4 /\ subnet.addr = <<12, 34, 56, 0>> /\ subnet.scope = 0 ->
         "12.34.56.0/0"
    [] subnet.family = 4 /\ subnet.addr = <<198, 51, 100, 77>> /\ subnet.scope = 24 ->
         "198.51.100.77/24"
    [] subnet.family = 6 /\ subnet.scope = 56 -> "2001:db8::1/56"

\* DoHJsonResponse::edns_client_subnet_serialize: None is written as "".
edns_client_subnet_serialize(edns_client_subnet) ==
  IF edns_client_subnet.some THEN IpNetToString(edns_client_subnet) ELSE ""

\* The members serde requires; Additional, edns_client_subnet and Comment
\* have defaults; a member the struct does not have (Authority) is ignored.
RequiredMembers == {"Status", "TC", "RD", "RA", "AD", "CD", "Question", "Answer"}

\* impl FromStr for DoHJsonResponse (serde_json::from_str).
from_str(doh_response_json) ==
  IF ~(RequiredMembers \subseteq DOMAIN doh_response_json) THEN Err
  ELSE [ok |-> TRUE,
        value |->
          [Status |-> doh_response_json["Status"],
           TC |-> doh_response_json["TC"],
           RD |-> doh_response_json["RD"],
           RA |-> doh_response_json["RA"],
           AD |-> doh_response_json["AD"],
           CD |-> doh_response_json["CD"],
           Question |-> doh_response_json["Question"],
           Answer |-> doh_response_json["Answer"],
           Additional |-> IF "Additional" \in DOMAIN doh_response_json
                          THEN doh_response_json["Additional"] ELSE << >>,
           edns_client_subnet |->
             IF "edns_client_subnet" \in DOMAIN doh_response_json
             THEN edns_client_subnet_deserialize(doh_response_json["edns_client_subnet"])
             ELSE NoSubnet,
           Comment |-> IF "Comment" \in DOMAIN doh_response_json
                       THEN doh_response_json["Comment"] ELSE ""]]

\* impl ToString for DoHJsonResponse (serde_json::to_string): the eleven
\* members of the struct.
to_string(self) ==
  [Status |-> self.Status, TC |-> self.TC, RD |-> self.RD, RA |-> self.RA,
   AD |-> self.AD, CD |-> self.CD, Question |-> self.Question,
   Answer |-> self.Answer, Additional |-> self.Additional,
   edns_client_subnet |-> edns_client_subnet_serialize(self.edns_client_subnet),
   Comment |-> self.Comment]

\* Reply bodies: the members every provider sends, taken from Replies, with
\* or without an edns_client_subnet string and an Authority section, and one
\* body that lacks a required member.
AuthoritySections ==
  { << >>,
    << [name |-> "example.com.", type |-> TypeSOA, TTL |-> 60,
        data |-> "ns. hostmaster. 1 2 3 4 5"] >> }

BodyOf(J) ==
  [Status |-> J.Status, TC |-> J.TC, RD |-> J.RD, RA |-> J.RA, AD |-> J.AD,
   CD |-> J.CD, Question |-> J.Question, Answer |-> J.Answer,
   Additional |-> << >>, Comment |-> ""]

Bodies ==
  LET bases == { BodyOf(Replies[k]) : k \in 1..Len(Replies) }
                 \cup { BodyOf(DoHJsonResponseDefault) }
      withSubnet == bases \cup { b @@ ("edns_client_subnet" :> raw) :
                                   b \in bases, raw \in RawSubnets }
      withAuthority == withSubnet \cup { b @@ ("Authority" :> a) :
                                          b \in withSubnet, a \in AuthoritySections }
  IN withAuthority \cup { [Status |-> 0, RD |-> TRUE, Question |-> << >>] }

InitJson ==
  /\ PipeIdle
  /\ ResolveIdle
  /\ ServiceIdle
  /\ ApplyIdle
  /\ provider = ProviderCall("default", "", Default)
  /\ http_request = NoHttpRequest
  /\ json \in { << b >> : b \in Bodies }
  /\ ResolverPoolIdle

\* body.parse::<DoHJsonResponse>().
JsonParse ==
  /\ Len(json) \in {1, 3}
  /\ Len(json) < MaxConversions
  /\ json' = Append(json, from_str(json[Len(json)]))
  /\ UNCHANGED <<provider, http_request, poolVars>>
  /\ UNCHANGED <<pipeVars, resolveVars, svcVars, aplog>>

\* dns_resp.to_string().
JsonSerialize ==
  /\ Len(json) = 2
  /\ json[2].ok
  /\ json' = Append(json, to_string(json[2].value))
  /\ UNCHANGED <<provider, http_request, poolVars>>
  /\ UNCHANGED <<pipeVars, resolveVars, svcVars, aplog>>

NextJson == JsonParse \/ JsonSerialize

SpecJson == InitJson /\ [][NextJson]_vars

\* -------------------------------------------------- the provider on its own
\* SpecProvider: a provider is obtained (the default one, one of the
\* registry by identifier, or one built from raw parts with a query in its
\* path template) and builds requests for questions.
ProviderIds == DOMAIN defaults \cup {"opendns"}

ProviderQuestions ==
  { [name |-> n, type |-> t] :
      n \in ValidNames \cup UnbuildableNames, t \in DOMAIN RecordTypeStr }

InitProvider ==
  /\ PipeIdle
  /\ ResolveIdle
  /\ ServiceIdle
  /\ ApplyIdle
  /\ provider = ProviderCall("none", "", NoProvider)
  /\ http_request = NoHttpRequest
  /\ json = <<>>
  /\ ResolverPoolIdle

\* DoHJsonProvider::default().
ProviderDefault ==
  /\ provider.call = "none"
  /\ provider' = ProviderCall("default", "", Default)
  /\ UNCHANGED <<http_request, json, poolVars>>
  /\ UNCHANGED <<pipeVars, resolveVars, svcVars, aplog>>

\* DoHJsonProvider::defaults().get(id).
ProviderGet(id) ==
  /\ provider.call = "none"
  /\ provider' = ProviderCall("get", id, defaults_get(id))
  /\ UNCHANGED <<http_request, json, poolVars>>
  /\ UNCHANGED <<pipeVars, resolveVars, svcVars, aplog>>

\* DoHJsonProvider::from_raw_parts with a path template that has a query.
ProviderFromRawParts ==
  /\ provider.call = "none"
  /\ provider' = ProviderCall("from_raw_parts", "",
                   [some |-> TRUE, id |-> "",
                    value |-> from_raw_parts("https", "doh.example.org", "/resolve",
                                             <<"ct=application/dns-json">>)])
  /\ UNCHANGED <<http_request, json, poolVars>>
  /\ UNCHANGED <<pipeVars, resolveVars, svcVars, aplog>>

\* provider.build_http_request(&query); the question is kept with the result.
BuildHttpRequest(q) ==
  /\ provider.result.some
  /\ http_request' = << [dns_query |-> q,
                         result |-> build_http_request(provider.result.value, q)] >>
  /\ UNCHANGED <<provider, json, poolVars>>
  /\ UNCHANGED <<pipeVars, resolveVars, svcVars, aplog>>

NextProvider ==
  \/ ProviderDefault
  \/ \E id \in ProviderIds : ProviderGet(id)
  \/ ProviderFromRawParts
  \/ \E q \in ProviderQuestions : BuildHttpRequest(q)

SpecProvider == InitProvider /\ [][NextProvider]_vars

Next ==
  \/ MainProcessorStart
  \/ MainServerStart
  \/ MainServerStartBindFails
  \/ MainJoinListener
  \/ MainServerStopped
  \/ MainAwaitTermination
  \/ HandlerStopServer
  \/ HandlerStopProcessor
  \/ \E e \in Endpoints : ListenerInit(e)
  \/ \E e \in Endpoints, dg \in Datagrams, c \in Clients : ListenerRecv(e, dg, c)
  \/ \E e \in Endpoints : ListenerTimeout(e)
  \/ \E e \in Endpoints : ListenerRecvError(e)
  \/ Dequeue
  \/ DequeueTimeout
  \/ PoolJoined
  \/ \E d \in 1..Len(task) : WorkerFinish(d)

Spec == Init /\ [][Next]_vars

\* SpecStop is the pipeline with the threads scheduled fairly and with
\* traffic that ends after MaxDatagrams datagrams, so that from then on every
\* receive of a listener times out; the owner of the Server may drop it once
\* await_stopped has returned.
ServerDropped ==
  /\ Alive
  /\ mainpc = "srvAwaited"
  /\ server_alive
  /\ server_alive' = FALSE
  /\ UNCHANGED <<processor_alive, apc>>
  /\ UNCHANGED <<pipeVars, resolveVars, aplog, unitVars>>

NextStop ==
  \/ MainStep
  \/ HandlerStopServer
  \/ HandlerStopProcessor
  \/ \E e \in Endpoints : ListenerStep(e)
  \/ ReceiverStep
  \/ DequeueDisconnected
  \/ \E d \in 1..Len(task) : WorkerFinish(d)
  \/ ServerDropped

\* Every thread that can take a step takes one, and a listener whose
\* receive can time out does time out.
FairStop ==
  /\ WF_vars(MainStep)
  /\ WF_vars(HandlerStopProcessor)
  /\ \A e \in Endpoints : WF_vars(ListenerInit(e))
  /\ \A e \in Endpoints : WF_vars(ListenerTimeout(e))
  /\ WF_vars(ReceiverStep)
  /\ \A d \in 1..MaxDatagrams : WF_vars(d \in 1..Len(task) /\ WorkerFinish(d))

SpecStop == Init /\ [][NextStop]_vars /\ FairStop

\* ------------------------------------------- the resolver's shared pool
\* SpecPool is NumWorkers workers of the Processor's pool calling
\* resolve_query at the same time on clones of one DoHJsonResolver, whose
\* pool of ResolverThreads threads they share.
PoolOutcomes == { o \in Outcomes : o.status = 200 }

\* resolve_query, lines 57-73: open the bounded result channel and hand one
\* job per question to the pool (execute never blocks).
PoolResolve(w, qs) ==
  /\ pcall[w].st = "idle"
  /\ pcall' = [pcall EXCEPT ![w] = [st |-> "collecting", queries |-> qs,
                                    chan |-> <<>>, taken |-> 0]]
  /\ pjobs' = pjobs \o [i \in 1..Len(qs) |->
                         [call |-> w, question |-> i, phase |-> "running",
                          result |-> [ok |-> FALSE]]]
  /\ UNCHANGED prun
  /\ UNCHANGED <<provider, http_request, json>>
  /\ UNCHANGED <<pipeVars, resolveVars, svcVars, aplog>>

\* A free thread of the pool takes the next job.
PoolThreadTake(t) ==
  /\ prun[t].phase = "idle"
  /\ pjobs # <<>>
  /\ prun' = [prun EXCEPT ![t] = Head(pjobs)]
  /\ pjobs' = Tail(pjobs)
  /\ UNCHANGED pcall
  /\ UNCHANGED <<provider, http_request, json>>
  /\ UNCHANGED <<pipeVars, resolveVars, svcVars, aplog>>

\* Pool thread, lines 65-66: build the request (unwrap: a panic ends the
\* job, its Sender is dropped and the pool replaces the thread), then make
\* the HTTPS call, which returns.
PoolThreadRun(t, o) ==
  /\ prun[t].phase = "running"
  /\ LET q == pcall[prun[t].call].queries[prun[t].question]
         req_http == build_http_request(provider.result.value, q)
     IN prun' = IF ~req_http.ok
                THEN [prun EXCEPT ![t] = NoJob]
                ELSE [prun EXCEPT ![t].phase = "sending",
                                  ![t].result = execute_http_request(req_http.req, o)]
  /\ UNCHANGED <<pcall, pjobs>>
  /\ UNCHANGED <<provider, http_request, json>>
  /\ UNCHANGED <<pipeVars, resolveVars, svcVars, aplog>>

\* Whether a send on the result channel of worker w blocks: the channel is
\* bounded(queries_count) and holds that many results.
SendBlocks(w) == Len(pcall[w].chan) >= Len(pcall[w].queries)

\* Pool thread, lines 70-71: tx.send(res_doh).expect(..): the result is put
\* in the channel; with the Receiver gone the send fails and the job panics.
PoolThreadSend(t) ==
  /\ prun[t].phase = "sending"
  /\ LET w == prun[t].call IN
       IF pcall[w].st # "collecting"
       THEN UNCHANGED pcall
       ELSE /\ ~SendBlocks(w)
            /\ pcall' = [pcall EXCEPT ![w].chan = Append(@, prun[t].result)]
  /\ prun' = [prun EXCEPT ![t] = NoJob]
  /\ UNCHANGED pjobs
  /\ UNCHANGED <<provider, http_request, json>>
  /\ UNCHANGED <<pipeVars, resolveVars, svcVars, aplog>>

\* resolve_query, lines 77-87: take one result and apply it (apply panics on
\* a record it cannot parse), or log its error.
PoolCollect(w) ==
  /\ pcall[w].st = "collecting"
  /\ pcall[w].taken < Len(pcall[w].queries)
  /\ pcall[w].chan # <<>>
  /\ LET r == Head(pcall[w].chan) IN
       pcall' = IF r.ok /\ ApplyPanics(r.reply)
                THEN [pcall EXCEPT ![w].st = "panicked", ![w].chan = <<>>]
                ELSE [pcall EXCEPT ![w].chan = Tail(@), ![w].taken = @ + 1]
  /\ UNCHANGED <<pjobs, prun>>
  /\ UNCHANGED <<provider, http_request, json>>
  /\ UNCHANGED <<pipeVars, resolveVars, svcVars, aplog>>

\* resolve_query, line 89: every result taken: Ok(res_dns_msg).
PoolReturn(w) ==
  /\ pcall[w].st = "collecting"
  /\ pcall[w].taken = Len(pcall[w].queries)
  /\ pcall' = [pcall EXCEPT ![w].st = "returned", ![w].chan = <<>>]
  /\ UNCHANGED <<pjobs, prun>>
  /\ UNCHANGED <<provider, http_request, json>>
  /\ UNCHANGED <<pipeVars, resolveVars, svcVars, aplog>>

WorkerStep(w) == PoolCollect(w) \/ PoolReturn(w)

ThreadStep(t) ==
  \/ PoolThreadTake(t)
  \/ \E o \in PoolOutcomes : PoolThreadRun(t, o)
  \/ PoolThreadSend(t)

NextPool ==
  \/ \E w \in Workers, qs \in SeqsUpTo(Questions, MaxQuestions) : PoolResolve(w, qs)
  \/ \E w \in Workers : WorkerStep(w)
  \/ \E t \in 1..ResolverThreads : ThreadStep(t)

\* Every worker and every pool thread that can take a step takes one; an
\* HTTPS call returns.
FairPool ==
  /\ \A w \in Workers : WF_vars(WorkerStep(w))
  /\ \A t \in 1..ResolverThreads : WF_vars(ThreadStep(t))

SpecPool == Init /\ [][NextPool]_vars /\ FairPool

\* ================================================================= claims
Answers(d) == { k \in 1..Len(wire) : wire[k].dg = d }

\* C1: the response resolve_query builds, whatever replies have been applied
\* to it and in whatever order, has the query's id and op_code, is of type
\* Response and is authoritative.
C1_ResponseEchoesQuery ==
  rstate \in {"collecting", "done"} =>
    /\ res.id = rq.id
    /\ res.op_code = rq.op_code
    /\ res.message_type = "Response"
    /\ res.authoritative = TRUE

\* C1 witness: resolve returned after applying two replies, the one of the
\* second question first, for a query with a non-default id and op_code.
C1_Witness ==
  /\ rstate = "done"
  /\ Len(applied) = 2 /\ applied[1] = 2
  /\ rq.id = 2 /\ rq.op_code = 2
  /\ res.response_code = 3

\* C2: no received datagram is answered by more than one response datagram.
C2_AtMostOneResponse ==
  \A d \in 1..Len(recvd) : Cardinality(Answers(d)) <= 1

\* C2 witness: two queries have been received and each has got its response.
C2_Witness ==
  /\ Len(recvd) >= 2
  /\ \A d \in 1..2 : task[d].st = "responded" /\ Cardinality(Answers(d)) = 1

\* C3: every response is sent to the source address of the datagram that
\* carried its query, through the endpoint that datagram arrived on.
C3_ResponseToSourceViaEndpoint ==
  \A k \in 1..Len(wire) :
    /\ wire[k].to = recvd[wire[k].dg].src
    /\ wire[k].via = recvd[wire[k].dg].ep

\* C3 witness: two responses are on the wire, for different clients and
\* through different endpoints, sent in the reverse order of the queries.
C3_Witness ==
  /\ Len(wire) = 2
  /\ wire[1].to # wire[2].to
  /\ wire[1].via # wire[2].via
  /\ wire[1].via # 1
  /\ wire[1].dg = 2

\* C4 (as claimed): when the tasks of all N questions have run, exactly N
\* HTTPS calls have been issued and N results have been delivered to
\* resolve_query; and when it has returned, the replies applied are exactly
\* those of the calls that succeeded.
C4_NCallsNResults ==
  /\ (rstate = "collecting" /\ \A i \in 1..Len(rtask) : rtask[i] # "queued")
       => /\ Len(calls) = Len(rq.queries)
          /\ taken + Len(chan) = Len(rq.queries)
  /\ rstate = "done"
       => /\ Len(calls) = Len(rq.queries)
          /\ \A c \in 1..Len(calls) :
               (\E a \in 1..Len(applied) : applied[a] = calls[c].question)
                 <=> (calls[c].outcome.transport_ok /\ calls[c].outcome.body # 0)

\* C5 (as claimed): a question whose request cannot be built is skipped:
\* resolve_query is never left waiting for a result that no task will send.
C5_BuildFailureSkipped ==
  ~ ( /\ rstate = "collecting"
      /\ \E i \in 1..Len(rtask) : rtask[i] = "panicked"
      /\ \A i \in 1..Len(rtask) : rtask[i] # "queued"
      /\ chan = <<>>
      /\ taken < Len(rq.queries) )

\* C6 (as claimed): the reply of a call that ended with a non-2xx status is
\* never applied to the response.
C6_Non2xxContributesNothing ==
  \A c \in 1..Len(calls) :
    (\E a \in 1..Len(applied) : applied[a] = calls[c].question)
      => calls[c].outcome.status \in 200..299

\* C7 (as claimed): a Request is published for a datagram if and only if the
\* datagram decodes to a message of type Query; the Request carries the
\* datagram's source address; every Request in the Queue holds a Query.
C7_PublishedIffQuery ==
  /\ \A d \in 1..Len(recvd) :
       recvd[d].published <=> IsQuery(dns_message_from_bytes(recvd[d].bytes))
  /\ \A k \in 1..Len(queue) :
       /\ queue[k].dns_query.message_type = "Query"
       /\ queue[k].source = recvd[queue[k].dg].src

\* C8 (as claimed): a listener loop and the dequeue loop are left only
\* through the shutdown flag.
C8_LoopsExitOnlyOnShutdown ==
  [][ /\ \A e \in Endpoints :
           (lpc[e] = "loop" /\ lpc'[e] # "loop") => status = "Stopping"
      /\ (rthread = "loop" /\ rthread' # "loop") => ~is_running ]_vars

\* C9 (as claimed): when the shutdown has completed, the Queue is empty and
\* no listener thread remains.
ShutdownCompleted ==
  /\ status = "Stopped"
  /\ hpc = "done"
  /\ rthread = "ended"
  /\ mainpc = "done"

C9_QueueEmptyAfterShutdown ==
  ShutdownCompleted =>
    /\ queue = <<>>
    /\ \A e \in Endpoints : lpc[e] \notin {"spawned", "loop"}

\* C10: once the receiver thread has ended, and so once await_termination has
\* returned, no worker task is still running: each task submitted has
\* responded, dropped its request or ended in a panic.
C10_TerminatesAfterDrain ==
  (rthread = "ended" \/ mainpc = "done") =>
    \A d \in 1..Len(task) :
      task[d].st \in {"none", "responded", "dropped", "panicked"}

\* C10 witness: main() has returned from await_termination after two tasks
\* were submitted, one that responded and one that ended in a panic.
C10_Witness ==
  /\ mainpc = "done"
  /\ rthread = "ended"
  /\ \E d \in 1..Len(task) : task[d].st = "responded"
  /\ \E d \in 1..Len(task) : task[d].st = "panicked"

\* C13 (as claimed): the Server's status only moves forward along
\* NotStarted, Starting, Started, Stopping, Stopped.
StatusRank(s) ==
  CASE s = "NotStarted" -> 0
    [] s = "Starting" -> 1
    [] s = "Started" -> 2
    [] s = "Stopping" -> 3
    [] s = "Stopped" -> 4

C13_StatusOnlyForward ==
  [][StatusRank(status') >= StatusRank(status)]_vars

\* C15 (as claimed): once stop() has been called on the Processor, no start()
\* makes it running again; once stop() has been called on the Server, no
\* start() returns it to Starting.
C15_NoResurrection ==
  [][ /\ (hpc = "done" /\ ~is_running) => ~is_running'
      /\ (hpc # "idle" /\ status # "Starting") => status' # "Starting" ]_vars

C17_ProcessorStartedFirst ==
  ( \/ \E e \in Endpoints : lpc[e] # "none"
    \/ threads # <<>>
    \/ recvd # <<>>
    \/ queue # <<>> )
    => (mainpc # "init" /\ rthread # "none")

\* C17 witness: a Request is in the Queue, published by the listener of the
\* second endpoint, while the receiver thread is in its loop.
C17_Witness ==
  /\ queue # <<>>
  /\ queue[1].udp_socket = 2
  /\ rthread = "loop"
  /\ is_running

\* C19: resolve given a message that is not a Query returns an error and
\* does nothing else: no task is handed to the pool, no HTTPS call is made,
\* no result is sent or taken and no response is prepared.
C19_NonQueryRejected ==
  rq.message_type # "Query" =>
    /\ rstate \in {"resolveCalled", "invalid"}
    /\ rtask = <<>>
    /\ calls = <<>>
    /\ chan = <<>>
    /\ taken = 0
    /\ applied = <<>>
    /\ res = DnsMessageNew

\* C19 witness: resolve has returned its error for a Response that carries
\* two questions.
C19_Witness ==
  /\ rstate = "invalid"
  /\ rq.message_type = "Response"
  /\ Len(rq.queries) = 2

\* C20: once a reply whose edns_client_subnet string parses has been
\* applied, the response carries exactly one option, of code Subnet, built
\* from the last such reply: family (0,1 for IPv4, 0,2 for IPv6), the source
\* prefix passed to apply, the scope, then the 4 or 16 octets of the address;
\* the declared length is the length of the data.
C20_Data(raw, p) ==
  CASE raw = "12.34.56.0/0" -> <<0, 1, p, 0, 12, 34, 56, 0>>
    [] raw = "198.51.100.77/24" -> <<0, 1, p, 24, 198, 51, 100, 77>>
    [] raw = "2001:db8::1/56" ->
         <<0, 2, p, 56, 32, 1, 13, 184, 0, 0, 0, 0, 0, 0, 0, 0, 0, 0, 0, 1>>

C20_Parseable == {"12.34.56.0/0", "198.51.100.77/24", "2001:db8::1/56"}

C20_OneSubnetOption ==
  LET with == { i \in 1..Len(aplog) : aplog[i].subnet \in C20_Parseable }
  IN (rstate = "applying" /\ with # {}) =>
       LET last == CHOOSE i \in with : \A j \in with : j <= i
           data == C20_Data(aplog[last].subnet, aplog[last].prefix)
       IN /\ Len(res.edns) = 1
          /\ res.edns[1].code = "Subnet"
          /\ res.edns[1].data = data
          /\ res.edns[1].length = Len(data)
          /\ Len(data) \in {8, 20}

\* C20 witness: a reply with an IPv4 subnet, then one with an IPv6 subnet and
\* a non-zero source prefix have been applied; one option is left.
C20_Witness ==
  /\ rstate = "applying"
  /\ Len(aplog) = 2
  /\ aplog[1].subnet = "198.51.100.77/24"
  /\ aplog[2].subnet = "2001:db8::1/56" /\ aplog[2].prefix = 10
  /\ Len(res.edns) = 1
  /\ res.edns[1].length = 20

\* C11 (as claimed): a listener that is in its loop when the shutdown flag is
\* set leaves the loop, as long as the flag stays set and the process lives
\* under the supervisor of main(), whatever arrives on its endpoint.
C11_ListenerExitsAfterStop ==
  \A e \in Endpoints :
    (status = "Stopping" /\ lpc[e] = "loop")
      ~> (lpc[e] # "loop" \/ status # "Stopping" \/ ~Alive \/ ~processor_alive)

\* C12 (as claimed): the receiver thread that is in its dequeue loop when
\* Processor.stop() has been called leaves the loop, as long as the Processor
\* is not started again and the process lives under the supervisor of
\* main(), whatever arrives on the Queue.
C12_DequeueLoopExitsAfterStop ==
  (hpc = "done" /\ ~is_running /\ rthread = "loop")
    ~> (rthread # "loop" \/ is_running \/ ~Alive \/ ~processor_alive)

\* C14 (as claimed): a caller of await_started is let through once Started
\* has been reached: it is never left waiting, every listener thread having
\* reported started, on a status that no thread will set to Started again.
C14_AwaitStartedNotStranded ==
  ~ ( /\ apc = "spinning"
      /\ \A e \in Endpoints : lpc[e] \notin {"none", "spawned"}
      /\ status \in {"Stopping", "Stopped"} )

\* C18: a listener whose publish failed has panicked and serves no more, the
\* Request is not in the Queue, and await_stopped never completes normally:
\* the status is not set to Stopped and main() does not go on.
C18_PublishFailureFatal ==
  \A d \in 1..Len(recvd) :
    recvd[d].err = "send" =>
      /\ lpc[recvd[d].ep] = "panicked"
      /\ ~recvd[d].published
      /\ \A k \in 1..Len(queue) : queue[k].dg # d
      /\ status # "Stopped"
      /\ mainpc \notin {"srvAwaited", "done"}

\* C18 witness: the publish of a listener failed and await_stopped, having
\* joined that thread, has panicked in main().
C18_Witness ==
  /\ \E d \in 1..Len(recvd) : recvd[d].err = "send" /\ recvd[d].ep = 1
  /\ threads = <<>>
  /\ mainpc = "panicked"

\* C21 (as claimed): in the response resolve returns, the source-prefix octet
\* of the synthesized Subnet option equals the source prefix of the query's
\* Client Subnet option, and is 0 only when the query carried none.
C21_QueryPrefix == IF rq.edns = <<>> THEN 0 ELSE rq.edns[1].data[3]

C21_SourcePrefixFromQuery ==
  (rstate = "done" /\ res.edns # <<>>) =>
     res.edns[1].data[3] = C21_QueryPrefix

\* C22: while resolve_query collects and when it has returned, the TC, RD,
\* RA, AD, CD flags and the rcode of the response are those of the reply
\* applied last, whatever they were before; a result that is an error
\* changes nothing; with no reply applied they are those of a new message.
C22_ReplyOf(question) ==
  LET c == CHOOSE k \in 1..Len(calls) : calls[k].question = question
  IN Replies[calls[c].outcome.body]

C22_Header(m) ==
  <<m.truncated, m.recursion_desired, m.recursion_available, m.authentic_data,
    m.checking_disabled, m.response_code>>

C23_Records(k) ==
  CASE k = 1 -> << [name |-> "example.com.", ttl |-> 300, type |-> 1,
                    rdata |-> <<93, 184, 216, 34>>] >>
    [] k = 2 -> << >>
    [] k = 3 -> << [name |-> "www.ivandemarino.me.", ttl |-> 120, type |-> 5,
                    rdata |-> "detro.github.com."] >>
    [] k = 5 -> << [name |-> "www.ivandemarino.me.", ttl |-> 7, type |-> 28,
                    rdata |-> <<0, 0, 0, 0, 0, 0, 0, 0, 0, 0, 0, 0, 0, 0, 0, 1>>],
                   [name |-> "example.com.", ttl |-> 3600, type |-> 2,
                    rdata |-> "detro.github.com."],
                   [name |-> "detro.github.com.", ttl |-> 0, type |-> 12,
                    rdata |-> "example.com."] >>

RECURSIVE C23_RecordsOfFirst(_)
C23_RecordsOfFirst(n) ==
  IF n = 0 THEN << >>
  ELSE C23_RecordsOfFirst(n - 1) \o C23_Records(aplog[n].reply)

C24_Arrived(c) ==
  IF calls[c].outcome.transport_ok /\ calls[c].outcome.body # 0
  THEN C23_Records(calls[c].outcome.body)
  ELSE << >>

RECURSIVE C24_ArrivedFirst(_)
C24_ArrivedFirst(n) ==
  IF n = 0 THEN << >> ELSE C24_ArrivedFirst(n - 1) \o C24_Arrived(n)

C24_AnswersInArrivalOrder ==
  rstate \in {"collecting", "done"} => res.answers = C24_ArrivedFirst(taken)

\* C24 witness: the result of question 2 arrived first, with three records;
\* the result of question 1 followed with one; the response holds the three
\* before the one.
C24_Witness ==
  /\ rstate = "done"
  /\ Len(calls) = 2
  /\ calls[1].question = 2 /\ calls[1].outcome.body = 5
  /\ calls[2].question = 1 /\ calls[2].outcome.body = 3
  /\ Len(res.answers) = 4
  /\ res.answers[1].type = TypeAAAA
  /\ res.answers[4].type = TypeCNAME

\* C25: for a Query without questions resolve hands no task to the pool and
\* makes no HTTPS call; resolve_query can return at once, without a result
\* on the channel; the response has the query's id and no Answers; and
\* respond, unless serialization or send_to fails, puts it on the wire for
\* the client the query came from.
C25_EmptyQuery == rq.message_type = "Query" /\ rq.queries = <<>>

C25_EmptyQueryAnswered ==
  C25_EmptyQuery =>
    /\ rtask = <<>> /\ calls = <<>> /\ chan = <<>> /\ taken = 0
    /\ rstate \notin {"invalid", "panicked"}
    /\ rstate = "collecting" => ENABLED ResolveReturn
    /\ rstate \in {"done", "responded", "serializeFailed", "sendFailed"} =>
         /\ res.message_type = "Response"
         /\ res.id = rq.id
         /\ res.answers = <<>>
    /\ rstate = "responded" =>
         wire = << [to |-> NumClients, via |-> NumEndpoints, dg |-> 1,
                    bytes |-> <<rq.id, 1 + 2 * rq.op_code, 0>>] >>

\* C25 witness: the response to a Query with id 2 and no questions is on
\* the wire.
C25_Witness ==
  /\ C25_EmptyQuery
  /\ rq.id = 2
  /\ rstate = "responded"
  /\ Len(wire) = 1
  /\ wire[1].bytes = <<2, 1 + 2 * rq.op_code, 0>>

\* C26 (as claimed): for every provider of the registry and every question,
\* build_http_request returns a GET, HTTP/1.1 request without body whose URI
\* is <scheme>://<authority><path>?type=<T>&name=<N> and whose headers are
\* the provider's mandatory headers.
C26_Authority(id) ==
  CASE id = "google" -> "dns.google.com"
    [] id = "cloudflare" -> "cloudflare-dns.com"
    [] id = "quad9" -> "dns.quad9.net"
    [] id = "quad9-secured" -> "dns9.quad9.net"
    [] id = "quad9-unsecured" -> "dns10.quad9.net"
    [] id = "rubyfish" -> "dns.rubyfish.cn"
    [] id = "blahdns" -> "doh-de.blahdns.com"

C26_Mnemonic(t) ==
  CASE t = 1 -> "A" [] t = 2 -> "NS" [] t = 5 -> "CNAME" [] t = 6 -> "SOA"
    [] t = 12 -> "PTR" [] t = 28 -> "AAAA"

C26_Request(id, q) ==
  [method |-> "GET", version |-> "HTTP/1.1", body |-> << >>,
   uri |-> <<"https", "://", C26_Authority(id),
             IF id = "google" THEN "/resolve" ELSE "/dns-query",
             "?type=", C26_Mnemonic(q.type), "&name=", q.name>>,
   headers |-> IF id = "cloudflare"
               THEN { <<"accept", "application/dns-json">> } ELSE {}]

C26_RequestForEveryQuestion ==
  (http_request # <<>> /\ provider.call \in {"default", "get"}) =>
     /\ http_request[1].result.ok
     /\ http_request[1].result.req =
          C26_Request(provider.result.id, http_request[1].dns_query)

\* C30: the registry holds exactly the seven identifiers, each entry under
\* its own identifier, and the default provider is obtained without a panic
\* and is the cloudflare entry.
C30_Ids ==
  {"google", "cloudflare", "quad9", "quad9-secured", "quad9-unsecured",
   "rubyfish", "blahdns"}

C30_DefaultInRegistry ==
  /\ provider.call = "get" =>
       /\ provider.result.some <=> provider.arg \in C30_Ids
       /\ provider.result.some =>
            /\ provider.result.id = provider.arg
            /\ provider.result.value.authority = C26_Authority(provider.arg)
  /\ provider.call = "default" =>
       /\ provider.result.some
       /\ provider.result.id = "cloudflare"
       /\ provider.result.value =
            [scheme |-> "https", authority |-> "cloudflare-dns.com",
             path |-> "/dns-query", query |-> << >>,
             headers |-> { <<"accept", "application/dns-json">> }]

\* C30 witness: the default provider was obtained and has built the request
\* of the Cloudflare example.
C30_Witness ==
  /\ provider.call = "default"
  /\ provider.result.some
  /\ http_request # <<>>
  /\ http_request[1].result.ok
  /\ http_request[1].result.req.uri[3] = "cloudflare-dns.com"

\* C27 (as claimed): respond called with a message that is not of type
\* Response panics and sends nothing.
C27_NonResponsePanics ==
  (res.message_type # "Response" /\ rstate # "respondCalled") =>
     /\ rstate = "panicked"
     /\ wire = <<>>

\* C28: when serialization fails respond sends nothing; when send_to fails
\* nothing is sent again; in both cases respond returns (it does not
\* panic); a respond call puts at most one datagram on the wire.
C28_OneAttemptNoRetry ==
  /\ rstate \in {"respondCalled", "responded", "serializeFailed", "sendFailed"}
  /\ rstate \in {"respondCalled", "serializeFailed", "sendFailed"} => wire = <<>>
  /\ rstate = "responded" =>
       /\ Len(wire) = 1
       /\ wire[1].bytes = dns_message_to_bytes(res)

\* C28 witness: send_to failed for a Response with two questions; respond
\* has returned and nothing is on the wire.
C28_Witness ==
  /\ rstate = "sendFailed"
  /\ res.message_type = "Response"
  /\ Len(res.queries) = 2
  /\ wire = <<>>

\* C29 (as claimed): for every reply body that has only members of the
\* schema (Authority among them), with a client subnet that is absent, empty
\* or a CIDR string, serializing the parsed value gives the body back (an
\* absent client subnet counting as the empty string), parsing that text
\* gives the value back, and an absent subnet is written as "".
C29_Schema ==
  {"Status", "TC", "RD", "RA", "AD", "CD", "Question", "Answer", "Authority",
   "Additional", "edns_client_subnet", "Comment"}

C29_InSchema(body) ==
  /\ DOMAIN body \subseteq C29_Schema
  /\ "edns_client_subnet" \in DOMAIN body =>
       body["edns_client_subnet"] \in
         {"", "12.34.56.0/0", "198.51.100.77/24", "2001:db8::1/56"}

C29_Text(body) ==
  IF "edns_client_subnet" \in DOMAIN body THEN body
  ELSE body @@ ("edns_client_subnet" :> "")

C29_RoundTripIdentity ==
  /\ (Len(json) >= 3 /\ C29_InSchema(json[1])) =>
       /\ C29_Text(json[3]) = C29_Text(json[1])
       /\ ~json[2].value.edns_client_subnet.some =>
            json[3]["edns_client_subnet"] = ""
  /\ (Len(json) = 4 /\ C29_InSchema(json[1])) => json[4] = json[2]

\* C31 (as claimed): whenever the status of the Server is Started, every
\* listener thread start() spawned has set its read timeout and reported
\* started.
C31_StartedMeansAllRunning ==
  status = "Started" => \A e \in Endpoints : lpc[e] \notin {"none", "spawned"}


\* C32: every Request taken off the Queue is held by exactly one worker task
\* and is no longer in the Queue; that task calls respond at most once, and
\* only after resolve returned Ok (the task is then "responded"); a task
\* whose resolve returned an error, or that is still resolving, has put
\* nothing on the wire.
C32_InQueue(d) == Len(SelectSeq(queue, LAMBDA r : r.dg = d))

C32_OneTaskOneRespond ==
  \A d \in DOMAIN task :
    /\ C32_InQueue(d) + (IF task[d].st = "none" THEN 0 ELSE 1) <= 1
    /\ task[d].st # "none" =>
         /\ recvd[d].published
         /\ task[d].req.dg = d
         /\ task[d].req.source = recvd[d].src
    /\ task[d].st = "responded" => task[d].req.dns_query.message_type = "Query"
    /\ task[d].st = "dropped" => task[d].req.dns_query.message_type # "Query"
    /\ task[d].st # "responded" => Answers(d) = {}
    /\ Cardinality(Answers(d)) <= 1

\* C32 witness: two Requests have been dequeued, one has been answered on the
\* wire by its task and the other is still being resolved by another task.
C32_Witness ==
  \E d1, d2 \in DOMAIN task :
    /\ d1 # d2
    /\ task[d1].st = "responded" /\ Cardinality(Answers(d1)) = 1
    /\ task[d2].st = "resolving" /\ Answers(d2) = {}
    /\ queue = <<>>

\* C33: start() runs one listener thread per endpoint or, when a bind
\* fails, none at all: the listener threads are either none or one for each
\* endpoint, every handle await_stopped has not yet joined is in the list
\* once, only ended threads have left the list, await_stopped returns with
\* every thread joined, and with no listener spawned the status is never
\* Started.
C33_Spawned == {e \in Endpoints : lpc[e] # "none"}

C33_Handles == {threads[i] : i \in DOMAIN threads}

C33_OneListenerPerEndpoint ==
  /\ C33_Spawned \in {{}, Endpoints}
  /\ mainpc \in {"init", "procStarted"} => C33_Spawned = {}
  /\ mainpc \in {"srvStarted", "srvAwaited", "done"} => C33_Spawned = Endpoints
  /\ Cardinality(C33_Handles) = Len(threads)
  /\ C33_Handles \subseteq C33_Spawned
  /\ \A e \in C33_Spawned \ C33_Handles : lpc[e] \in {"exited", "panicked"}
  /\ mainpc \in {"srvAwaited", "done"} =>
       threads = <<>> /\ \A e \in Endpoints : lpc[e] = "exited"
  /\ C33_Spawned = {} => threads = <<>> /\ status \notin {"Started", "Stopped"}

\* C33 witness: start() succeeded with one listener per endpoint, and
\* await_stopped has joined every one of them and returned.
C33_Witness ==
  /\ mainpc = "srvAwaited"
  /\ status = "Stopped"
  /\ threads = <<>>
  /\ Cardinality(C33_Spawned) = NumEndpoints

\* C34 (as claimed): once stop() has been called on a Server that start()
\* has started, however the call falls among the start-up steps of the
\* listeners, every listener exits and await_stopped returns, unless the
\* process has died of a panic.
C34_AwaitStoppedReturns ==
  (hpc # "idle" /\ mainpc = "srvStarted")
    ~> ((mainpc = "srvAwaited" /\ \A e \in Endpoints : lpc[e] = "exited") \/ ~Alive)

\* C35 (as claimed): once Processor.stop() has been called, the receiver
\* thread leaves its dequeue loop and the Processor terminates, also when
\* every Sender of the Queue has been dropped, unless the process has died
\* of a panic.
C35_TerminatesWhenDisconnected ==
  (hpc = "done" /\ ~is_running /\ rthread = "loop" /\ SendersDropped)
    ~> (rthread \in {"joining", "ended"} \/ ~Alive)

\* C36 (as claimed): with every HTTPS call returning, a pool thread that is
\* to deliver a result to a resolve call still collecting never finds the
\* result channel full, and every resolve call made on a Processor worker,
\* whatever other calls share the resolver's pool, returns.
C36_EveryResolveReturns ==
  /\ [](\A t \in 1..ResolverThreads :
          (prun[t].phase = "sending" /\ pcall[prun[t].call].st = "collecting")
            => ~SendBlocks(prun[t].call))
  /\ \A w \in Workers :
       (pcall[w].st = "collecting") ~> (pcall[w].st = "returned")

C38_Unparseable(o) ==
  o.transport_ok /\ o.body # 0 /\ ApplyPanics(Replies[o.body])

C38_UnparseableRecordTolerated ==
  (\E k \in 1..Len(calls) : C38_Unparseable(calls[k].outcome))
    => rstate # "panicked"

\* C39 (as claimed): when the HTTPS call of every question of a query has
\* failed (a transport error, a status that is not 2xx, or a body that is
\* no DoH JSON), no reply is applied and resolve_query neither panics nor
\* returns an error: it returns the bare response header (the query's id,
\* response code NoError, no questions, no answers), respond is called with
\* it and, unless serialization or send_to fails, exactly that one datagram
\* goes to the client.
C39_Failed(o) == ~o.transport_ok \/ o.status \div 100 # 2 \/ o.body = 0

C39_AllFailed ==
  /\ rq.message_type = "Query"
  /\ rq.queries # <<>>
  /\ Len(calls) = Len(rq.queries)
  /\ \A k \in 1..Len(calls) : C39_Failed(calls[k].outcome)

C39_AllFailuresAnsweredEmpty ==
  C39_AllFailed =>
    /\ rstate \notin {"invalid", "panicked"}
    /\ applied = <<>>
    /\ rstate = "done" => ENABLED ResolveRespond
    /\ rstate \in {"done", "responded", "serializeFailed", "sendFailed"} =>
         /\ res = ResponseHeader(rq)
         /\ res.id = rq.id /\ res.response_code = 0
         /\ res.queries = <<>> /\ res.answers = <<>>
    /\ rstate = "responded" =>
         wire = << [to |-> NumClients, via |-> NumEndpoints, dg |-> 1,
                    bytes |-> <<rq.id, 1 + 2 * rq.op_code, 0>>] >>
    /\ rstate # "responded" => wire = <<>>

\* C40 (as claimed): what the listener publishes for a datagram is what it
\* publishes for the same datagram in the run in which nothing was received
\* before it on its endpoint: a Request is published in both runs or in
\* neither, and the Request holds the same decoded query.
C40_Alone(d) == dns_message_from_bytes(recv_from(ZeroBuf, recvd[d].bytes))

C40_PublishedFromOwnBytes ==
  \A d \in 1..Len(recvd) :
    recvd[d].err = "none" =>
      /\ recvd[d].published <=> IsQuery(C40_Alone(d))
      /\ \A k \in 1..Len(queue) :
           queue[k].dg = d => queue[k].dns_query = C40_Alone(d).msg
      /\ task[d].st # "none" => task[d].req.dns_query = C40_Alone(d).msg

=========================================================================
